---- MODULE Spec2Model ----
(***************************************************************************)
(* The two pipeline drivers of ezmlir: ezmlir.py (input file or stdin,     *)
(* object file or shared library, explicit or ephemeral temporary          *)
(* directory) and main.py (fixed matmul-chain source, object file,         *)
(* optional link with test_harness.c and execution).                       *)
(*                                                                         *)
(* One behaviour is one run of one of the two programs.  The state is the  *)
(* parsed command line, the file system (directories and files with their  *)
(* content), the locals of main(), the list of external commands spawned   *)
(* so far, what was printed, and the exit status.  The external tools are  *)
(* opaque: each spawn nondeterministically cannot be started, exits 0 or   *)
(* exits 2, and in either of the last two cases has or has not written its *)
(* output file.                                                            *)
(***************************************************************************)
EXTENDS Integers, Sequences, FiniteSets, TLC

\* Number of distinct source texts the input (file or stdin) may hold.
NumTexts == 2

Texts == 1..NumTexts

(***************************************************************************)
(* argparse values.  An option that was not given is None; one that was    *)
(* given holds its string, which may be empty.                             *)
(***************************************************************************)
None == [some |-> FALSE, val |-> ""]

Some(v) == [some |-> TRUE, val |-> v]

\* Python truthiness of an optional string: None and "" are both false.
Truthy(o) == o.some /\ o.val # ""

\* Python's `a or b` on an optional string a.
OrElse(o, d) == IF Truthy(o) THEN o.val ELSE d

(***************************************************************************)
(* Paths.  A directory is the sequence of its components ("/" first when   *)
(* absolute, <<>> for the current directory); a file path is a directory   *)
(* with a name split as pathlib splits it into stem and suffix.            *)
(***************************************************************************)
Cwd == <<>>

\* Path(s) for the directory strings the runs use.
PathParts(s) ==
    CASE s = "" -> Cwd
      [] s = "." -> Cwd
      [] s = "work" -> <<"work">>
      [] s = "out" -> <<"out">>
      [] s = "/abs" -> <<"/", "abs">>
      [] s = "nowhere/sub" -> <<"nowhere", "sub">>

\* directory / "stem.suffix"
Join(dir, stem, suffix) == [dir |-> dir, stem |-> stem, suffix |-> suffix]

\* Path(o) of an output argument given as directory string and file name.
PathOf(o) == Join(PathParts(o.dir), o.stem, o.suffix)

\* The directory tempfile.TemporaryDirectory() makes: a fresh name nobody
\* can pass on the command line.
EphemeralDir == <<"/", "tmp", "tmpXXXX">>

Parent(dir) == IF dir = Cwd THEN Cwd ELSE SubSeq(dir, 1, Len(dir) - 1)

\* Path.mkdir(exist_ok=True) succeeds on an existing directory and creates
\* a missing one only below an existing parent (no parents=True).
MkdirOk(dir, ds) == dir \in ds \/ Parent(dir) \in ds

\* Path.exists() / open(p, 'r') succeeding.
Exists(fs, p) == p \in DOMAIN fs

\* open(p, 'w').write(c), or a tool writing its -o file.
WriteFile(fs, p, c) == (p :> c) @@ fs

\* Path.unlink() of the listed files that exist.
Unlink(fs, ps) == [p \in (DOMAIN fs) \ ps |-> fs[p]]

\* shutil.rmtree of a directory: every file below it goes.
RmTree(fs, dir) == [p \in {q \in DOMAIN fs : q.dir # dir} |-> fs[p]]

Content(kind, id) == [kind |-> kind, id |-> id]

\* What a tool leaves in its output: a function of the stage and of the
\* text it was given (0 when the input file was missing).
Produced(fs, kind, input) ==
    Content(kind, IF Exists(fs, input) THEN fs[input].id ELSE 0)

(***************************************************************************)
(* The stage functions.  Each builds one command line and hands it to      *)
(* subprocess.run; `check` is the check=True argument.  `kind` names the   *)
(* artifact the tool is asked to produce.                                  *)
(***************************************************************************)
Cmd(fn, tool, flags, input, extra, output, kind, check) ==
    [fn |-> fn, tool |-> tool, flags |-> flags, input |-> input,
     extra |-> extra, output |-> output, kind |-> kind, check |-> check]

optimize_mlir(input_file, output_file, cfg) ==
    Cmd("optimize_mlir", cfg.mlir_opt,
        <<"--canonicalize", "--linalg-fuse-elementwise-ops", "--cse",
          "--linalg-generalize-named-ops", "--convert-linalg-to-loops">>,
        input_file, <<>>, output_file, "OptimizedIR", TRUE)

lower_to_llvm_dialect(input_file, output_file, cfg) ==
    Cmd("lower_to_llvm_dialect", cfg.mlir_opt,
        <<"--one-shot-bufferize=bufferize-function-boundaries=1",
          "--convert-linalg-to-loops", "--convert-scf-to-cf",
          "--expand-strided-metadata", "--lower-affine",
          "--finalize-memref-to-llvm", "--convert-arith-to-llvm",
          "--convert-func-to-llvm", "--convert-cf-to-llvm",
          "--reconcile-unrealized-casts">>,
        input_file, <<>>, output_file, "LoweredIR", TRUE)

translate_to_llvm_ir(input_file, output_file, cfg) ==
    Cmd("translate_to_llvm_ir", cfg.mlir_translate, <<"--mlir-to-llvmir">>,
        input_file, <<>>, output_file, "TargetIR", TRUE)

compile_to_object(llvm_ir_file, obj_file, cfg) ==
    Cmd("compile_to_object", cfg.llc, <<"-filetype=obj">>,
        llvm_ir_file, <<>>, obj_file, "NativeObject", TRUE)

compile_to_shared_lib(llvm_ir_file, so_file, cfg) ==
    Cmd("compile_to_shared_lib", cfg.clang, <<"-shared", "-fPIC">>,
        llvm_ir_file, <<>>, so_file, "SharedLibrary", TRUE)

\* create_executable without check=True.
create_executable_unchecked(obj_file, harness_file, exe_file, cfg) ==
    Cmd("create_executable", cfg.clang, <<>>,
        obj_file, <<harness_file>>, exe_file, "Executable", FALSE)

create_executable(obj_file, harness_file, exe_file, cfg) ==
    Cmd("create_executable", cfg.clang, <<>>,
        obj_file, <<harness_file>>, exe_file, "Executable", TRUE)

\* f"./{exe_file}": the string is made relative to the current directory,
\* so an absolute exe_file names a path below the current directory.
DotSlash(p) ==
    [p EXCEPT !.dir = IF p.dir # Cwd /\ Head(p.dir) = "/" THEN Tail(p.dir)
                      ELSE p.dir]

\* run_executable with check=True, like the stage functions.
run_executable_checked(exe_file) ==
    Cmd("run_executable", "./", <<>>,
        DotSlash(exe_file), <<>>, DotSlash(exe_file), "ExecutionOutput", TRUE)

\* run_executable spawns the program itself, without check=True.
run_executable(exe_file) ==
    Cmd("run_executable", "./", <<>>,
        DotSlash(exe_file), <<>>, DotSlash(exe_file), "ExecutionOutput", FALSE)

(***************************************************************************)
(* What one spawn can do: the program cannot be started (subprocess.run    *)
(* raises FileNotFoundError), or it runs and exits with a status, having   *)
(* written its output file or not.                                         *)
(***************************************************************************)
ExitCodes == {0, 2}

Outcomes ==
    {[kind |-> "nospawn", code |-> 0, wrote |-> FALSE]}
        \cup {[kind |-> "exit", code |-> c, wrote |-> w] :
                c \in ExitCodes, w \in BOOLEAN}

\* Raised without the check=True of the stage functions.
RaisedUnchecked(c, o) == IF o.kind = "nospawn" THEN "Exception" ELSE "none"

\* The exception subprocess.run(cmd, check=c.check) raises, if any.
Raised(c, o) ==
    IF o.kind = "nospawn" THEN "Exception"
    ELSE IF c.check /\ o.code # 0 THEN "CalledProcessError"
    ELSE "none"

\* The file system after the spawned tool has run.
AfterTool(fs, c, o) ==
    IF o.wrote THEN WriteFile(fs, c.output, Produced(fs, c.kind, c.input))
    ELSE fs

\* The record of one spawn: the command, what the tool did, and whether
\* the output file existed when subprocess.run returned or raised.
Spawned(fs, c, o) ==
    [fn |-> c.fn, tool |-> c.tool, flags |-> c.flags, input |-> c.input,
     extra |-> c.extra, output |-> c.output, outcome |-> o,
     outExists |-> Exists(AfterTool(fs, c, o), c.output)]

(***************************************************************************)
(* Tool resolution.                                                        *)
(***************************************************************************)
\* ResolveTool letting the suffix win over the override.
ResolveToolIgnoringOverride(override, defaultName, suffix) ==
    defaultName \o suffix

\* ezmlir.py: args.<tool> or f"<default>{args.suffix}"
ResolveTool(override, defaultName, suffix) ==
    OrElse(override, defaultName \o suffix)

EzConfig(a) ==
    [mlir_opt |-> ResolveTool(a.mlir_opt, "mlir-opt", a.suffix),
     mlir_translate |-> ResolveTool(a.mlir_translate, "mlir-translate", a.suffix),
     llc |-> ResolveTool(a.llc, "llc", a.suffix),
     clang |-> ResolveTool(a.clang, "clang", a.suffix)]

\* MLIRConfig(): the bare default names.
MLIRConfig ==
    [mlir_opt |-> "mlir-opt", mlir_translate |-> "mlir-translate",
     llc |-> "llc", clang |-> "clang"]

\* main.py: the options carry their defaults, the config copies them.
MainConfig(a) ==
    [mlir_opt |-> a.mlir_opt, mlir_translate |-> a.mlir_translate,
     llc |-> a.llc, clang |-> a.clang]

(***************************************************************************)
(* The command lines the runs are started with.                            *)
(***************************************************************************)
Suffixes == {"", "-20"}

ToolOverrides(name) == {None, Some(""), Some("/opt/llvm/bin/" \o name)}

\* Every combination of the four overrides.
AllOverrides ==
    [mlir_opt : ToolOverrides("mlir-opt"),
     mlir_translate : ToolOverrides("mlir-translate"),
     llc : ToolOverrides("llc"),
     clang : ToolOverrides("clang")]

\* The combinations the pipeline runs are started with: none, llc alone,
\* an empty --mlir-opt.
SomeOverrides ==
    {[mlir_opt |-> None, mlir_translate |-> None, llc |-> None, clang |-> None],
     [mlir_opt |-> None, mlir_translate |-> None,
      llc |-> Some("/opt/llvm/bin/llc"), clang |-> None],
     [mlir_opt |-> Some(""), mlir_translate |-> None, llc |-> None,
      clang |-> Some("/opt/llvm/bin/clang")]}

Inputs == {"-", "in.mlir", "gone.mlir"}

\* Path(args.input) for the named input files.
InputPath(s) ==
    IF s = "in.mlir" THEN Join(Cwd, "in", ".mlir") ELSE Join(Cwd, "gone", ".mlir")

EzOutputs ==
    [dir : {".", "work"}, stem : {"out"}, suffix : {".o"}]
        \cup {[dir |-> "work", stem |-> "lowered", suffix |-> ".mlir"],
              [dir |-> "work", stem |-> "original", suffix |-> ".ll"]}

EzTempDirs == {None, Some(""), Some("work"), Some("nowhere/sub")}

EzArgs(overrides) ==
    {[input |-> i, output |-> o, suffix |-> s,
      mlir_opt |-> t.mlir_opt, mlir_translate |-> t.mlir_translate,
      llc |-> t.llc, clang |-> t.clang,
      temp_dir |-> td, shared_lib |-> sl] :
        i \in Inputs, o \in EzOutputs, s \in Suffixes, t \in overrides,
        td \in EzTempDirs, sl \in BOOLEAN}

MainOutputDirs == {".", "out", "/abs", "nowhere/sub"}

MainArgs ==
    {[mlir_opt |-> t, mlir_translate |-> "mlir-translate", llc |-> "llc",
      clang |-> "clang", keep_temps |-> k, output_dir |-> d] :
        t \in {"mlir-opt", "/opt/llvm/bin/mlir-opt"}, k \in BOOLEAN,
        d \in MainOutputDirs}

(***************************************************************************)
(* The file system a run starts in.  The current directory, / and /tmp     *)
(* exist.  The directory the run is pointed at (work for ezmlir.py, out    *)
(* for main.py) is absent, empty, or holds files of an earlier run.        *)
(***************************************************************************)
PreStates == {"absent", "empty", "used"}

BaseDirs == {Cwd, <<"/">>, <<"/", "tmp">>}

InitDirs(dir, pre) == IF pre = "absent" THEN BaseDirs ELSE BaseDirs \cup {dir}

Stale == Content("stale", 0)

UsedFiles(dir) ==
    (Join(dir, "notes", ".txt") :> Stale) @@ (Join(dir, "optimized", ".mlir") :> Stale)

SourceFile == Join(Cwd, "in", ".mlir") :> Content("text", 1)

HarnessPath == Join(Cwd, "test_harness", ".c")

InitFiles(dir, pre, harness) ==
    (IF pre = "used" THEN UsedFiles(dir) ELSE <<>>)
        @@ (IF harness THEN HarnessPath :> Content("harness", 0) ELSE <<>>)
        @@ SourceFile

(***************************************************************************)
(* The artifact paths of a run.                                            *)
(***************************************************************************)
original_mlir(tp) == Join(tp, "original", ".mlir")

optimized_mlir(tp) == Join(tp, "optimized", ".mlir")

\* lowered_mlir given the name of the optimized file.
lowered_mlir_reusing_optimized(tp) == Join(tp, "optimized", ".mlir")

lowered_mlir(tp) == Join(tp, "lowered", ".mlir")

\* ezmlir.py: temp_path / f"{Path(args.output).stem}.ll"
EzLlvmIrFile(tp, a) == Join(tp, PathOf(a.output).stem, ".ll")

\* ezmlir.py: output_file = Path(args.output)
EzOutputFile(a) == PathOf(a.output)

\* main.py: the fixed names below output_dir.
MainLlvmIrFile(od) == Join(od, "matmul_chain", ".ll")

obj_file(od) == Join(od, "matmul_chain", ".o")

exe_file(od) == Join(od, "matmul_test", "")

\* create_matmul_chain_mlir(): the fixed source text of main.py.
create_matmul_chain_mlir == Content("text", 0)

\* EzTerminal with the branches of --shared-lib swapped.
EzTerminalSwapped(a, tp, cfg) ==
    IF a.shared_lib
    THEN compile_to_object(EzLlvmIrFile(tp, a), EzOutputFile(a), cfg)
    ELSE compile_to_shared_lib(EzLlvmIrFile(tp, a), EzOutputFile(a), cfg)

\* ezmlir.py: the terminal stage chosen by --shared-lib.
EzTerminal(a, tp, cfg) ==
    IF a.shared_lib
    THEN compile_to_shared_lib(EzLlvmIrFile(tp, a), EzOutputFile(a), cfg)
    ELSE compile_to_object(EzLlvmIrFile(tp, a), EzOutputFile(a), cfg)

EzTerminalMessage(a) ==
    IF a.shared_lib THEN "Shared library generated" ELSE "Object file generated"

\* EzCleanupFiles never cleaning up.
EzCleanupFilesNever(fs, tp, ct) == fs

\* EzCleanupFiles cleaning up whoever made the directory.
EzCleanupFilesAlways(fs, tp, ct) == RmTree(fs, tp)

\* ezmlir.py, finally: the TemporaryDirectory is cleaned up, an explicit
\* directory is left alone.
EzCleanupFiles(fs, tp, ct) == IF ct THEN RmTree(fs, tp) ELSE fs

EzCleanupDirs(ds, tp, ct) == IF ct THEN ds \ {tp} ELSE ds

\* MainCleanupFiles unlinking whatever --keep-temps says.
MainCleanupFilesIgnoringKeep(fs, tracked, keep) ==
    Unlink(fs, {tracked[i] : i \in 1..Len(tracked)})

\* main.py, finally: the tracked files that exist are unlinked unless
\* --keep-temps was given.
MainCleanupFiles(fs, tracked, keep) ==
    IF keep THEN fs ELSE Unlink(fs, {tracked[i] : i \in 1..Len(tracked)})

(***************************************************************************)
(* State.                                                                  *)
(*   prog, args, stdin   the program run, its parsed command line, and     *)
(*                       the text on standard input                        *)
(*   dirs, files         the file system: directories, and files with      *)
(*                       their content                                     *)
(*   pc                  the statement main() is at                        *)
(*   config, mlir_code, temp_path, cleanup_temp, temp_files, result        *)
(*                       locals of main(); temp_path is output_dir in      *)
(*                       main.py                                           *)
(*   calls               the commands spawned so far, in order             *)
(*   log                 the messages printed that tell how the run went   *)
(*   exit_status         the status the process ends with                  *)
(*   opened, closes      whether the working directory was set up, and     *)
(*                       how often the finally block has run               *)
(*   first               when the program is run twice over: the file      *)
(*                       system both runs start in, and how the first run  *)
(*                       ended                                             *)
(***************************************************************************)
VARIABLES prog, args, stdin, dirs, files, pc, config, mlir_code, temp_path,
          cleanup_temp, temp_files, result, calls, log, exit_status, opened,
          closes, first

vars == <<prog, args, stdin, dirs, files, pc, config, mlir_code, temp_path,
          cleanup_temp, temp_files, result, calls, log, exit_status, opened,
          closes, first>>

given == <<prog, args, stdin, first>>

\* No earlier run to compare with.
NoRun ==
    [ran |-> FALSE, dirs0 |-> {}, files0 |-> <<>>,
     mlir_code |-> Content("unset", 0), calls |-> <<>>, log |-> <<>>,
     exit_status |-> 0, dirs |-> {}, files |-> <<>>]

Locals ==
    /\ pc = "start"
    /\ config = MLIRConfig
    /\ mlir_code = Content("unset", 0)
    /\ temp_path = Cwd
    /\ cleanup_temp = FALSE
    /\ temp_files = <<>>
    /\ result = [ran |-> FALSE, returncode |-> 0]
    /\ calls = <<>>
    /\ log = <<>>
    /\ exit_status = 0
    /\ opened = FALSE
    /\ closes = 0

InitEz(overrides) ==
    /\ prog = "ezmlir"
    /\ args \in EzArgs(overrides)
    /\ stdin \in {Content("text", t) : t \in Texts}
    /\ \E pre \in PreStates :
          /\ dirs = InitDirs(<<"work">>, pre)
          /\ files = InitFiles(<<"work">>, pre, FALSE)
    /\ Locals

InitMain ==
    /\ prog = "main"
    /\ args \in MainArgs
    /\ stdin = Content("text", 1)
    /\ \E pre \in PreStates, harness \in BOOLEAN :
          /\ dirs = InitDirs(<<"out">>, pre)
          /\ files = InitFiles(<<"out">>, pre, harness)
    /\ Locals

Init == (InitEz(SomeOverrides) \/ InitMain) /\ first = NoRun

(***************************************************************************)
(* Leaving the try block.                                                  *)
(***************************************************************************)
\* The message of the except clause that catches exc.
ErrorMessage(exc) ==
    IF exc = "CalledProcessError" THEN "Error running command" ELSE "Error"

\* Except leaving the process at once, as os._exit(1) would.
ExceptSkippingFinally(exc) ==
    /\ log' = Append(log, IF exc = "CalledProcessError"
                          THEN "Error running command" ELSE "Error")
    /\ exit_status' = 1
    /\ pc' = "done"

\* An exception inside try: the matching except clause prints and calls
\* sys.exit(1); the finally block is still to run.
Except(exc) ==
    /\ log' = Append(log, ErrorMessage(exc))
    /\ exit_status' = 1
    /\ pc' = "finally"

\* An exception outside try: the interpreter prints the traceback and the
\* process ends with status 1; no finally block is entered.
Uncaught ==
    /\ log' = Append(log, "Traceback")
    /\ exit_status' = 1
    /\ pc' = "done"

\* After a statement of the try block: on to the next one, or out.
Then(exc, next) ==
    IF exc = "none" THEN pc' = next /\ UNCHANGED <<log, exit_status>>
    ELSE Except(exc)

\* Spawn running a failed command a second time.
SpawnRetrying(c, o) ==
    /\ calls' = IF Raised(c, o) = "none"
                THEN Append(calls, Spawned(files, c, o))
                ELSE Append(Append(calls, Spawned(files, c, o)),
                            Spawned(AfterTool(files, c, o), c, o))
    /\ files' = AfterTool(files, c, o)

\* subprocess.run(c): the spawn is recorded and the tool acts on the files.
Spawn(c, o) ==
    /\ calls' = Append(calls, Spawned(files, c, o))
    /\ files' = AfterTool(files, c, o)

(***************************************************************************)
(* ezmlir.py, main().                                                      *)
(***************************************************************************)
\* config from --suffix and the overrides.
Ez_Resolve ==
    /\ prog = "ezmlir" /\ pc = "start"
    /\ config' = EzConfig(args)
    /\ pc' = "read"
    /\ UNCHANGED <<given, dirs, files, mlir_code, temp_path, cleanup_temp,
                   temp_files, result, calls, log, exit_status, opened, closes>>

\* Ez_ReadInput opening args.input as a file whatever it is.
Ez_ReadInputAlwaysOpens ==
    /\ prog = "ezmlir" /\ pc = "read"
    /\ IF Exists(files, InputPath(args.input))
       THEN /\ mlir_code' = files[InputPath(args.input)]
            /\ pc' = "open"
            /\ UNCHANGED <<log, exit_status>>
       ELSE /\ Uncaught
            /\ UNCHANGED mlir_code
    /\ UNCHANGED <<given, dirs, files, config, temp_path, cleanup_temp,
                   temp_files, result, calls, opened, closes>>

\* The source is read from stdin or from the named file, before try.
Ez_ReadInput ==
    /\ prog = "ezmlir" /\ pc = "read"
    /\ IF args.input = "-"
       THEN /\ mlir_code' = stdin
            /\ pc' = "open"
            /\ UNCHANGED <<log, exit_status>>
       ELSE IF Exists(files, InputPath(args.input))
       THEN /\ mlir_code' = files[InputPath(args.input)]
            /\ pc' = "open"
            /\ UNCHANGED <<log, exit_status>>
       ELSE /\ Uncaught
            /\ UNCHANGED mlir_code
    /\ UNCHANGED <<given, dirs, files, config, temp_path, cleanup_temp,
                   temp_files, result, calls, opened, closes>>

\* --temp-dir is created if need be, or a TemporaryDirectory is made;
\* temp_path is set from it on entering try.
Ez_OpenWorkspace ==
    /\ prog = "ezmlir" /\ pc = "open"
    /\ IF Truthy(args.temp_dir)
       THEN LET temp_dir == PathParts(args.temp_dir.val) IN
            IF MkdirOk(temp_dir, dirs)
            THEN /\ dirs' = dirs \cup {temp_dir}
                 /\ temp_path' = temp_dir
                 /\ cleanup_temp' = FALSE
                 /\ opened' = TRUE
                 /\ pc' = "write_src"
                 /\ UNCHANGED <<log, exit_status>>
            ELSE /\ Uncaught
                 /\ UNCHANGED <<dirs, temp_path, cleanup_temp, opened>>
       ELSE /\ dirs' = dirs \cup {EphemeralDir}
            /\ temp_path' = EphemeralDir
            /\ cleanup_temp' = TRUE
            /\ opened' = TRUE
            /\ pc' = "write_src"
            /\ UNCHANGED <<log, exit_status>>
    /\ UNCHANGED <<given, files, config, mlir_code, temp_files, result, calls,
                   closes>>

\* original.mlir is written; the write may fail.
Ez_WriteSource ==
    /\ prog = "ezmlir" /\ pc = "write_src"
    /\ \E ok \in BOOLEAN :
          IF ok
          THEN /\ files' = WriteFile(files, original_mlir(temp_path), mlir_code)
               /\ Then("none", "optimize")
          ELSE /\ Then("Exception", "optimize")
               /\ UNCHANGED files
    /\ UNCHANGED <<given, dirs, config, mlir_code, temp_path, cleanup_temp,
                   temp_files, result, calls, opened, closes>>

Ez_Optimize ==
    /\ prog = "ezmlir" /\ pc = "optimize"
    /\ \E o \in Outcomes :
          LET c == optimize_mlir(original_mlir(temp_path),
                                 optimized_mlir(temp_path), config) IN
          Spawn(c, o) /\ Then(Raised(c, o), "read_opt")
    /\ UNCHANGED <<given, dirs, config, mlir_code, temp_path, cleanup_temp,
                   temp_files, result, opened, closes>>

\* optimized.mlir is read back to be printed.
Ez_ReadOptimized ==
    /\ prog = "ezmlir" /\ pc = "read_opt"
    /\ Then(IF Exists(files, optimized_mlir(temp_path)) THEN "none"
            ELSE "Exception", "lower")
    /\ UNCHANGED <<given, dirs, files, config, mlir_code, temp_path,
                   cleanup_temp, temp_files, result, calls, opened, closes>>

Ez_Lower ==
    /\ prog = "ezmlir" /\ pc = "lower"
    /\ \E o \in Outcomes :
          LET c == lower_to_llvm_dialect(optimized_mlir(temp_path),
                                         lowered_mlir(temp_path), config) IN
          Spawn(c, o) /\ Then(Raised(c, o), "translate")
    /\ UNCHANGED <<given, dirs, config, mlir_code, temp_path, cleanup_temp,
                   temp_files, result, opened, closes>>

Ez_Translate ==
    /\ prog = "ezmlir" /\ pc = "translate"
    /\ \E o \in Outcomes :
          LET c == translate_to_llvm_ir(lowered_mlir(temp_path),
                                        EzLlvmIrFile(temp_path, args), config) IN
          Spawn(c, o) /\ Then(Raised(c, o), "read_ll")
    /\ UNCHANGED <<given, dirs, config, mlir_code, temp_path, cleanup_temp,
                   temp_files, result, opened, closes>>

\* The .ll file is read back to be printed.
Ez_ReadLlvmIr ==
    /\ prog = "ezmlir" /\ pc = "read_ll"
    /\ Then(IF Exists(files, EzLlvmIrFile(temp_path, args)) THEN "none"
            ELSE "Exception", "compile")
    /\ UNCHANGED <<given, dirs, files, config, mlir_code, temp_path,
                   cleanup_temp, temp_files, result, calls, opened, closes>>

\* The terminal stage: object file or shared library.
Ez_Compile ==
    /\ prog = "ezmlir" /\ pc = "compile"
    /\ \E o \in Outcomes :
          LET c == EzTerminal(args, temp_path, config) IN
          /\ Spawn(c, o)
          /\ IF Raised(c, o) = "none"
             THEN /\ log' = Append(log, EzTerminalMessage(args))
                  /\ pc' = "finally"
                  /\ UNCHANGED exit_status
             ELSE Except(Raised(c, o))
    /\ UNCHANGED <<given, dirs, config, mlir_code, temp_path, cleanup_temp,
                   temp_files, result, opened, closes>>

\* finally: the temporary directory is removed if the run made it.
Ez_Finally ==
    /\ prog = "ezmlir" /\ pc = "finally"
    /\ files' = EzCleanupFiles(files, temp_path, cleanup_temp)
    /\ dirs' = EzCleanupDirs(dirs, temp_path, cleanup_temp)
    /\ closes' = closes + 1
    /\ pc' = "done"
    /\ UNCHANGED <<given, config, mlir_code, temp_path, cleanup_temp,
                   temp_files, result, calls, log, exit_status, opened>>

(***************************************************************************)
(* main.py, main().                                                        *)
(***************************************************************************)
Main_Resolve ==
    /\ prog = "main" /\ pc = "start"
    /\ config' = MainConfig(args)
    /\ pc' = "open"
    /\ UNCHANGED <<given, dirs, files, mlir_code, temp_path, cleanup_temp,
                   temp_files, result, calls, log, exit_status, opened, closes>>

\* output_dir is created if need be and temp_files starts empty, before try.
Main_OpenOutputDir ==
    /\ prog = "main" /\ pc = "open"
    /\ LET output_dir == PathParts(args.output_dir) IN
       IF MkdirOk(output_dir, dirs)
       THEN /\ dirs' = dirs \cup {output_dir}
            /\ temp_path' = output_dir
            /\ temp_files' = <<>>
            /\ opened' = TRUE
            /\ pc' = "write_src"
            /\ UNCHANGED <<log, exit_status>>
       ELSE /\ Uncaught
            /\ UNCHANGED <<dirs, temp_path, temp_files, opened>>
    /\ UNCHANGED <<given, files, config, mlir_code, cleanup_temp, result,
                   calls, closes>>

\* The source is generated and original.mlir written, then tracked.
Main_WriteSource ==
    /\ prog = "main" /\ pc = "write_src"
    /\ mlir_code' = create_matmul_chain_mlir
    /\ \E ok \in BOOLEAN :
          IF ok
          THEN /\ files' = WriteFile(files, original_mlir(temp_path),
                                     create_matmul_chain_mlir)
               /\ temp_files' = Append(temp_files, original_mlir(temp_path))
               /\ Then("none", "optimize")
          ELSE /\ Then("Exception", "optimize")
               /\ UNCHANGED <<files, temp_files>>
    /\ UNCHANGED <<given, dirs, config, temp_path, cleanup_temp, result,
                   calls, opened, closes>>

\* Tracked appending before the stage function has returned.
TrackedBeforeReturn(c, o) == Append(temp_files, c.output)

\* A stage whose output is tracked once the stage function has returned.
Tracked(c, o) ==
    IF Raised(c, o) = "none" THEN Append(temp_files, c.output) ELSE temp_files

Main_Optimize ==
    /\ prog = "main" /\ pc = "optimize"
    /\ \E o \in Outcomes :
          LET c == optimize_mlir(original_mlir(temp_path),
                                 optimized_mlir(temp_path), config) IN
          /\ Spawn(c, o)
          /\ temp_files' = Tracked(c, o)
          /\ Then(Raised(c, o), "read_opt")
    /\ UNCHANGED <<given, dirs, config, mlir_code, temp_path, cleanup_temp,
                   result, opened, closes>>

Main_ReadOptimized ==
    /\ prog = "main" /\ pc = "read_opt"
    /\ Then(IF Exists(files, optimized_mlir(temp_path)) THEN "none"
            ELSE "Exception", "lower")
    /\ UNCHANGED <<given, dirs, files, config, mlir_code, temp_path,
                   cleanup_temp, temp_files, result, calls, opened, closes>>

Main_Lower ==
    /\ prog = "main" /\ pc = "lower"
    /\ \E o \in Outcomes :
          LET c == lower_to_llvm_dialect(optimized_mlir(temp_path),
                                         lowered_mlir(temp_path), config) IN
          /\ Spawn(c, o)
          /\ temp_files' = Tracked(c, o)
          /\ Then(Raised(c, o), "translate")
    /\ UNCHANGED <<given, dirs, config, mlir_code, temp_path, cleanup_temp,
                   result, opened, closes>>

Main_Translate ==
    /\ prog = "main" /\ pc = "translate"
    /\ \E o \in Outcomes :
          LET c == translate_to_llvm_ir(lowered_mlir(temp_path),
                                        MainLlvmIrFile(temp_path), config) IN
          Spawn(c, o) /\ Then(Raised(c, o), "read_ll")
    /\ UNCHANGED <<given, dirs, config, mlir_code, temp_path, cleanup_temp,
                   temp_files, result, opened, closes>>

Main_ReadLlvmIr ==
    /\ prog = "main" /\ pc = "read_ll"
    /\ Then(IF Exists(files, MainLlvmIrFile(temp_path)) THEN "none"
            ELSE "Exception", "compile")
    /\ UNCHANGED <<given, dirs, files, config, mlir_code, temp_path,
                   cleanup_temp, temp_files, result, calls, opened, closes>>

Main_Compile ==
    /\ prog = "main" /\ pc = "compile"
    /\ \E o \in Outcomes :
          LET c == compile_to_object(MainLlvmIrFile(temp_path),
                                     obj_file(temp_path), config) IN
          /\ Spawn(c, o)
          /\ IF Raised(c, o) = "none"
             THEN /\ log' = Append(log, "Object file generated")
                  /\ pc' = "harness"
                  /\ UNCHANGED exit_status
             ELSE Except(Raised(c, o))
    /\ UNCHANGED <<given, dirs, config, mlir_code, temp_path, cleanup_temp,
                   temp_files, result, opened, closes>>

\* Main_Harness going on to link whether or not the harness is there.
Main_HarnessAlwaysLinks ==
    /\ prog = "main" /\ pc = "harness"
    /\ pc' = "link"
    /\ UNCHANGED <<given, dirs, files, config, mlir_code, temp_path,
                   cleanup_temp, temp_files, result, calls, log, exit_status,
                   opened, closes>>

\* if harness_file.exists(): link and run, else say so and go on.
Main_Harness ==
    /\ prog = "main" /\ pc = "harness"
    /\ IF Exists(files, HarnessPath)
       THEN pc' = "link" /\ UNCHANGED log
       ELSE pc' = "finally" /\ log' = Append(log, "skipping executable creation")
    /\ UNCHANGED <<given, dirs, files, config, mlir_code, temp_path,
                   cleanup_temp, temp_files, result, calls, exit_status,
                   opened, closes>>

Main_Link ==
    /\ prog = "main" /\ pc = "link"
    /\ \E o \in Outcomes :
          LET c == create_executable(obj_file(temp_path), HarnessPath,
                                     exe_file(temp_path), config) IN
          /\ Spawn(c, o)
          /\ IF Raised(c, o) = "none"
             THEN /\ log' = Append(log, "Executable generated")
                  /\ pc' = "run"
                  /\ UNCHANGED exit_status
             ELSE Except(Raised(c, o))
    /\ UNCHANGED <<given, dirs, config, mlir_code, temp_path, cleanup_temp,
                   temp_files, result, opened, closes>>

\* What spawning the executable can do: it cannot be started when the
\* path names no file (or no program); it writes no file of the run.
RunOutcomes(fs, p) ==
    {o \in Outcomes : ~o.wrote /\ (~Exists(fs, p) => o.kind = "nospawn")}

\* The executable is run; its exit status is kept in result, not checked.
Main_Run ==
    /\ prog = "main" /\ pc = "run"
    /\ LET c == run_executable(exe_file(temp_path)) IN
       \E o \in RunOutcomes(files, c.input) :
          /\ Spawn(c, o)
          /\ result' = IF Raised(c, o) = "none"
                       THEN [ran |-> TRUE, returncode |-> o.code] ELSE result
          /\ Then(Raised(c, o), "finally")
    /\ UNCHANGED <<given, dirs, config, mlir_code, temp_path, cleanup_temp,
                   temp_files, opened, closes>>

\* finally: the tracked files are unlinked unless --keep-temps.
Main_Finally ==
    /\ prog = "main" /\ pc = "finally"
    /\ files' = MainCleanupFiles(files, temp_files, args.keep_temps)
    /\ closes' = closes + 1
    /\ pc' = "done"
    /\ UNCHANGED <<given, dirs, config, mlir_code, temp_path, cleanup_temp,
                   temp_files, result, calls, log, exit_status, opened>>

Next ==
    \/ Ez_Resolve
    \/ Ez_ReadInput
    \/ Ez_OpenWorkspace
    \/ Ez_WriteSource
    \/ Ez_Optimize
    \/ Ez_ReadOptimized
    \/ Ez_Lower
    \/ Ez_Translate
    \/ Ez_ReadLlvmIr
    \/ Ez_Compile
    \/ Ez_Finally
    \/ Main_Resolve
    \/ Main_OpenOutputDir
    \/ Main_WriteSource
    \/ Main_Optimize
    \/ Main_ReadOptimized
    \/ Main_Lower
    \/ Main_Translate
    \/ Main_ReadLlvmIr
    \/ Main_Compile
    \/ Main_Harness
    \/ Main_Link
    \/ Main_Run
    \/ Main_Finally

Spec == Init /\ [][Next]_vars

\* Tool resolution alone, over every combination of suffix and overrides.
InitResolve == InitEz(AllOverrides) /\ first = NoRun

NextResolve == Ez_Resolve

SpecResolve == InitResolve /\ [][NextResolve]_vars

(***************************************************************************)
(* ezmlir.py run twice on the same text, in the same file system, with the *)
(* same arguments but for the input: first `-` with the text on stdin,     *)
(* then in.mlir holding the text.  The tools and the write of original.mlir*)
(* behave in the second run as they did in the first.                      *)
(***************************************************************************)
InitPair ==
    /\ prog = "ezmlir"
    /\ args \in {a \in EzArgs(SomeOverrides) : a.input = "-"}
    /\ \E t \in Texts, pre \in PreStates :
          /\ stdin = Content("text", t)
          /\ dirs = InitDirs(<<"work">>, pre)
          /\ files = (Join(Cwd, "in", ".mlir") :> Content("text", t))
                        @@ InitFiles(<<"work">>, pre, FALSE)
    /\ Locals
    /\ first = [NoRun EXCEPT !.dirs0 = dirs, !.files0 = files]

\* The first process has ended; the second is started on in.mlir.
Restart ==
    /\ prog = "ezmlir" /\ pc = "done" /\ ~first.ran
    /\ first' = [first EXCEPT !.ran = TRUE, !.mlir_code = mlir_code,
                              !.calls = calls, !.log = log,
                              !.exit_status = exit_status,
                              !.dirs = dirs, !.files = files]
    /\ args' = [args EXCEPT !.input = "in.mlir"]
    /\ dirs' = first.dirs0
    /\ files' = first.files0
    /\ pc' = "start"
    /\ config' = MLIRConfig
    /\ mlir_code' = Content("unset", 0)
    /\ temp_path' = Cwd
    /\ cleanup_temp' = FALSE
    /\ temp_files' = <<>>
    /\ result' = [ran |-> FALSE, returncode |-> 0]
    /\ calls' = <<>>
    /\ log' = <<>>
    /\ exit_status' = 0
    /\ opened' = FALSE
    /\ closes' = 0
    /\ UNCHANGED <<prog, stdin>>

\* The second run meets the environment of the first: a command spawned
\* again ends as it did, and original.mlir can be written if it could be.
SameEnvironment ==
    first.ran =>
        /\ \A i \in 1..Len(calls) :
              i <= Len(first.calls) => calls[i].outcome = first.calls[i].outcome
        /\ pc = "optimize" => first.calls # <<>>
        /\ (pc = "finally" /\ calls = <<>>) => first.calls = <<>>

NextPair ==
    \/ Ez_Resolve /\ SameEnvironment'
    \/ Ez_ReadInput /\ SameEnvironment'
    \/ Ez_OpenWorkspace /\ SameEnvironment'
    \/ Ez_WriteSource /\ SameEnvironment'
    \/ Ez_Optimize /\ SameEnvironment'
    \/ Ez_ReadOptimized /\ SameEnvironment'
    \/ Ez_Lower /\ SameEnvironment'
    \/ Ez_Translate /\ SameEnvironment'
    \/ Ez_ReadLlvmIr /\ SameEnvironment'
    \/ Ez_Compile /\ SameEnvironment'
    \/ Ez_Finally /\ SameEnvironment'
    \/ Restart

SpecPair == InitPair /\ [][NextPair]_vars

(***************************************************************************)
(* Vocabulary of the properties.                                           *)
(***************************************************************************)
\* The spawns of pipeline stages (everything but the run of the executable).
IsStage(c) == c.fn # "run_executable"

\* The tool could not be started or exited with a non-zero status.
Failed(c) == c.outcome.kind = "nospawn" \/ c.outcome.code # 0

ExitedZero(c) == c.outcome.kind = "exit" /\ c.outcome.code = 0

IsTerminal(c) == c.fn \in {"compile_to_object", "compile_to_shared_lib"}

ErrorReports == {"Error running command", "Error"}

LastLog == IF log = <<>> THEN "" ELSE log[Len(log)]

\* The working directory's documented file names.
Named(stem, suffix) == [dir |-> temp_path, stem |-> stem, suffix |-> suffix]

\* The documented name of the target IR and of the native output.
TargetIRPath ==
    IF prog = "ezmlir" THEN Named(args.output.stem, ".ll")
    ELSE Named("matmul_chain", ".ll")

NativePath ==
    IF prog = "ezmlir"
    THEN [dir |-> PathParts(args.output.dir), stem |-> args.output.stem,
          suffix |-> args.output.suffix]
    ELSE Named("matmul_chain", ".o")

\* C1: when a stage's tool exits non-zero or cannot be spawned, no later
\* command is spawned in that run, the failure is reported by one of the
\* except clauses with exit status 1, and the finally block runs before the
\* process ends.
C1_FailureAbortsRun ==
    \A i \in 1..Len(calls) :
        (IsStage(calls[i]) /\ Failed(calls[i])) =>
            /\ i = Len(calls)
            /\ pc \in {"finally", "done"}
            /\ exit_status = 1
            /\ LastLog \in ErrorReports
            /\ (pc = "done" => closes = 1)

\* A run whose optimize stage exited with status 2 has ended.
C1_Witness ==
    /\ pc = "done" /\ Len(calls) = 1
    /\ calls[1].fn = "optimize_mlir"
    /\ calls[1].outcome.kind = "exit" /\ calls[1].outcome.code = 2
    /\ closes = 1

\* C2: the stages are spawned in the order optimize, lower, translate,
\* terminal codegen; the first reads original.mlir, which holds the source
\* text, each later one reads exactly the file the stage before it was told
\* to write and is spawned only after that stage returned successfully, and
\* the outputs carry the documented names.
C2_StagesInOrder ==
    /\ pc \in {"optimize", "read_opt", "lower", "translate", "read_ll", "compile"}
          => /\ Exists(files, Named("original", ".mlir"))
             /\ files[Named("original", ".mlir")] = mlir_code
    /\ \A i \in 1..Len(calls) :
          /\ i = 1 => /\ calls[i].fn = "optimize_mlir"
                      /\ calls[i].input = Named("original", ".mlir")
                      /\ calls[i].output = Named("optimized", ".mlir")
          /\ i = 2 => /\ calls[i].fn = "lower_to_llvm_dialect"
                      /\ calls[i].output = Named("lowered", ".mlir")
          /\ i = 3 => /\ calls[i].fn = "translate_to_llvm_ir"
                      /\ calls[i].output = TargetIRPath
          /\ i = 4 => /\ IsTerminal(calls[i])
                      /\ calls[i].output = NativePath
          /\ i \in 2..4 => /\ calls[i].input = calls[i - 1].output
                           /\ ~Failed(calls[i - 1])

\* A run in which all four stages succeeded and wrote their output has ended.
C2_Witness ==
    /\ pc = "done" /\ exit_status = 0 /\ Len(calls) >= 4
    /\ \A i \in 1..4 : ExitedZero(calls[i]) /\ calls[i].outcome.wrote

\* C3: once the working directory has been set up, the finally block runs
\* exactly once per run: never before the try block is left, once when the
\* run has ended, whatever the way out, and never twice.
C3_CloseExactlyOnce ==
    /\ closes <= 1
    /\ pc # "done" => closes = 0
    /\ (pc = "done" /\ opened) => closes = 1
    /\ ~opened => closes = 0

\* A run that failed writing original.mlir has ended.
C3_Witness ==
    /\ pc = "done" /\ opened /\ calls = <<>>
    /\ exit_status = 1 /\ LastLog = "Error" /\ closes = 1

\* The intermediate files of the run, and all files its artifacts name.
Intermediates ==
    {Named("original", ".mlir"), Named("optimized", ".mlir"),
     Named("lowered", ".mlir"), TargetIRPath}

Artifacts == Intermediates \cup {NativePath}

EphemeralRunEnded == prog = "ezmlir" /\ cleanup_temp /\ pc = "done"

\* C4 as stated: after a run of ezmlir.py without --temp-dir has ended, no
\* file named by any of its artifacts, the native output included, is on
\* disk.
C4_NoArtifactRemains ==
    EphemeralRunEnded => \A p \in Artifacts : ~Exists(files, p)

\* C4 as amended: after a run of ezmlir.py without --temp-dir has ended,
\* successfully or not, none of its intermediate files is on disk and the
\* temporary directory is gone; the native output the terminal tool wrote
\* at the requested path is still there.
C4_NoIntermediateRemains ==
    EphemeralRunEnded =>
        /\ \A p \in Intermediates : ~Exists(files, p)
        /\ temp_path \notin dirs
        /\ \A i \in 1..Len(calls) :
              (IsTerminal(calls[i]) /\ calls[i].outcome.wrote)
                  => Exists(files, NativePath)

\* A successful run in an ephemeral directory, all outputs written, has ended.
C4_Witness ==
    /\ EphemeralRunEnded /\ exit_status = 0 /\ Len(calls) = 4
    /\ \A i \in 1..4 : calls[i].outcome.wrote
    /\ Exists(files, NativePath)

\* C5: in ezmlir.py the terminal stage is compile_to_shared_lib (clang
\* -shared -fPIC) exactly when --shared-lib is set and compile_to_object
\* (llc -filetype=obj) exactly when it is not; it is the fourth spawn, no
\* other spawn is a terminal tool, and nothing is spawned after it.
C5_TerminalMatchesMode ==
    prog = "ezmlir" =>
        /\ Len(calls) <= 4
        /\ \A i \in 1..Len(calls) :
              /\ IsTerminal(calls[i]) <=> i = 4
              /\ calls[i].fn = "compile_to_shared_lib" =>
                    /\ args.shared_lib
                    /\ calls[i].tool = config.clang
                    /\ calls[i].flags = <<"-shared", "-fPIC">>
              /\ calls[i].fn = "compile_to_object" =>
                    /\ ~args.shared_lib
                    /\ calls[i].tool = config.llc
                    /\ calls[i].flags = <<"-filetype=obj">>
              /\ i = 4 => (calls[i].fn = "compile_to_shared_lib" <=> args.shared_lib)

\* A --shared-lib run has spawned its terminal tool.
C5_Witness ==
    /\ prog = "ezmlir" /\ args.shared_lib /\ Len(calls) = 4
    /\ calls[4].fn = "compile_to_shared_lib" /\ pc = "done"

\* The directory --temp-dir names (Path("") is the current directory).
ExplicitDir == PathParts(args.temp_dir.val)

\* C6: a directory given with --temp-dir exists once the workspace is open
\* and from then on, and the finally block removes neither it nor any file
\* in it nor changes one, on success and on failure alike; without
\* --temp-dir the run works in a directory it created, which the finally
\* block removes with everything in it.
C6_ExplicitKeptEphemeralRemoved ==
    /\ [](prog = "ezmlir" =>
            /\ (args.temp_dir.some /\ opened) => ExplicitDir \in dirs
            /\ (~args.temp_dir.some /\ opened) => cleanup_temp
            /\ (cleanup_temp /\ pc # "done") => temp_path \in dirs
            /\ (cleanup_temp /\ pc = "done") =>
                  /\ temp_path \notin dirs
                  /\ \A p \in DOMAIN files : p.dir # temp_path)
    /\ [][(prog = "ezmlir" /\ pc = "finally" /\ args.temp_dir.some) =>
            \A p \in DOMAIN files :
                p.dir = ExplicitDir => (Exists(files', p) /\ files'[p] = files[p])]_vars

\* A failed run in the explicit directory work has ended with its
\* intermediate file still in place.
C6_Witness ==
    /\ prog = "ezmlir" /\ pc = "done" /\ args.temp_dir = Some("work")
    /\ exit_status = 1 /\ calls # <<>>
    /\ Exists(files, Join(<<"work">>, "original", ".mlir"))

ToolFields == {"mlir_opt", "mlir_translate", "llc", "clang"}

\* C7 as stated: each resolved path is the override when one was given and
\* the default name followed by the suffix otherwise.
C7_OverrideElseSuffix ==
    (prog = "ezmlir" /\ pc # "start") =>
        \A t \in ToolFields :
            config[t] = IF args[t].some THEN args[t].val
                        ELSE MLIRConfig[t] \o args.suffix

\* C7 as amended: each resolved path is the override when a non-empty one
\* was given, and the default name followed by the suffix otherwise, an
\* override given as the empty string included.
C7_NonEmptyOverrideElseSuffix ==
    (prog = "ezmlir" /\ pc # "start") =>
        \A t \in ToolFields :
            config[t] = IF args[t].some /\ args[t].val # "" THEN args[t].val
                        ELSE MLIRConfig[t] \o args.suffix

\* Suffix -20 with an override for llc alone has been resolved.
C7_Witness ==
    /\ prog = "ezmlir" /\ pc = "read" /\ args.suffix = "-20"
    /\ args.mlir_opt = None /\ args.llc = Some("/opt/llvm/bin/llc")
    /\ config.mlir_opt = "mlir-opt-20" /\ config.llc = "/opt/llvm/bin/llc"

\* C8: when a stage's tool exits with status 0 and its output file does not
\* exist, no later command is spawned and the run ends with exit status 1.
C8_MissingOutputFailsRun ==
    \A i \in 1..Len(calls) :
        (IsStage(calls[i]) /\ ExitedZero(calls[i]) /\ ~calls[i].outExists) =>
            /\ i = Len(calls)
            /\ pc = "done" => exit_status = 1

\* C9: a run ends with status 0 only when every stage succeeded, with
\* status 1 when anything failed, and every failure is reported by one of
\* the except clauses of main(), never by the interpreter's traceback.
C9_ExitStatusAndReport ==
    pc = "done" =>
        /\ exit_status \in {0, 1}
        /\ exit_status = 0 =>
              /\ Len(calls) >= 4
              /\ \A i \in 1..Len(calls) : IsStage(calls[i]) => ~Failed(calls[i])
        /\ exit_status = 1 => LastLog \in ErrorReports

\* Every stage tool wrote its output exactly when it exited with status 0.
ContractHonoured ==
    \A i \in 1..Len(calls) :
        IsStage(calls[i]) => (calls[i].outcome.wrote <=> ExitedZero(calls[i]))

\* The terminal artifact of this run is on disk: the terminal tool wrote
\* it and the file is still there.
TerminalArtifactOnDisk ==
    /\ \E i \in 1..Len(calls) : IsTerminal(calls[i]) /\ calls[i].outcome.wrote
    /\ Exists(files, NativePath)

\* C10: a run has ended with status 0 and its terminal artifact on disk, or
\* with status 1 and no terminal artifact of the run on disk.  Stated for
\* the runs whose tools honour their contract, which is where the claim is
\* at its weakest.
C10_NoPartialSuccess ==
    (pc = "done" /\ ContractHonoured) =>
        IF exit_status = 0 THEN TerminalArtifactOnDisk
        ELSE ~TerminalArtifactOnDisk

\* main.py: the documented name of a file in the output directory.
InOutputDir(stem, suffix) ==
    [dir |-> PathParts(args.output_dir), stem |-> stem, suffix |-> suffix]

\* C11: with --keep-temps the finally block of main.py changes no file, and
\* after a successful run original.mlir and every file the four stages
\* wrote (optimized.mlir, lowered.mlir, matmul_chain.ll, matmul_chain.o) are
\* on disk in the output directory under these names, the tracked ones
\* included.
C11_KeepTempsKeepsAll ==
    /\ []((prog = "main" /\ args.keep_temps /\ pc = "done" /\ exit_status = 0) =>
            /\ Exists(files, InOutputDir("original", ".mlir"))
            /\ Len(calls) >= 4
            /\ calls[1].output = InOutputDir("optimized", ".mlir")
            /\ calls[2].output = InOutputDir("lowered", ".mlir")
            /\ calls[3].output = InOutputDir("matmul_chain", ".ll")
            /\ calls[4].output = InOutputDir("matmul_chain", ".o")
            /\ \A i \in 1..4 :
                  calls[i].outExists => Exists(files, calls[i].output))
    /\ [][(prog = "main" /\ args.keep_temps /\ pc = "finally") =>
            (files' = files /\ dirs' = dirs)]_vars

\* A successful --keep-temps run has ended with all five files on disk.
C11_Witness ==
    /\ prog = "main" /\ args.keep_temps /\ pc = "done" /\ exit_status = 0
    /\ \A i \in 1..4 : calls[i].outcome.wrote
    /\ {InOutputDir("original", ".mlir"), InOutputDir("optimized", ".mlir"),
        InOutputDir("lowered", ".mlir"), InOutputDir("matmul_chain", ".ll"),
        InOutputDir("matmul_chain", ".o")} \subseteq DOMAIN files
    /\ Len(temp_files) = 3

IsLinkOrRun(c) == c.fn \in {"create_executable", "run_executable"}

\* C12: in main.py, when test_harness.c does not exist, neither the link
\* nor the executable is ever spawned and no execution result is captured;
\* if object codegen succeeded the run then ends with exit status 0 after
\* saying that it skips the step.  The link is spawned only when the
\* harness exists, as the fifth command, after object codegen succeeded.
C12_NoHarnessSkipsLink ==
    prog = "main" =>
        /\ ~Exists(files, HarnessPath) =>
              /\ \A i \in 1..Len(calls) : ~IsLinkOrRun(calls[i])
              /\ ~result.ran
              /\ (Len(calls) = 4 /\ ~Failed(calls[4])) =>
                    /\ pc \in {"harness", "finally", "done"}
                    /\ exit_status = 0
                    /\ pc # "harness"
                          => LastLog = "skipping executable creation"
        /\ \A i \in 1..Len(calls) :
              calls[i].fn = "create_executable" =>
                  /\ Exists(files, HarnessPath)
                  /\ calls[i].extra = <<HarnessPath>>
                  /\ i = 5 /\ ~Failed(calls[4])

\* A run without harness has ended successfully after object codegen.
C12_Witness ==
    /\ prog = "main" /\ ~Exists(files, HarnessPath) /\ pc = "done"
    /\ Len(calls) = 4 /\ ExitedZero(calls[4]) /\ calls[4].outcome.wrote
    /\ exit_status = 0

\* C13: every artifact path is written by exactly one stage and differs
\* from every other artifact's path (no two spawns share an output path and
\* none writes original.mlir), no stage is given its own input path as
\* output, and each stage reads the artifact of the kind it accepts: the
\* source for the first, the output of the stage before it for the others.
C13_WriteOnceKindCorrect ==
    \A i \in 1..Len(calls) :
        IsStage(calls[i]) =>
            /\ calls[i].output # Named("original", ".mlir")
            /\ calls[i].input # calls[i].output
            /\ \A j \in 1..Len(calls) :
                  (IsStage(calls[j]) /\ j # i)
                      => calls[j].output # calls[i].output
            /\ calls[i].input = IF i = 1 THEN Named("original", ".mlir")
                                ELSE calls[i - 1].output

\* C15: no command is spawned twice in a run, and outside the finally
\* block no file or directory disappears and a file changes only by being
\* the output the command spawned in that step wrote, or original.mlir as
\* main() writes it: a failing stage leaves what earlier stages wrote as
\* it is.
C15_NoRetryNoRollback ==
    /\ [](\A i, j \in 1..Len(calls) : calls[i].fn = calls[j].fn => i = j)
    /\ [][pc # "finally" =>
            /\ dirs \subseteq dirs'
            /\ \A p \in DOMAIN files :
                  /\ Exists(files', p)
                  /\ files'[p] # files[p] =>
                        \/ /\ pc = "write_src"
                           /\ p = Named("original", ".mlir")
                        \/ /\ Len(calls') = Len(calls) + 1
                           /\ calls'[Len(calls')].output = p
                           /\ calls'[Len(calls')].outcome.wrote]_vars

\* A run in an explicit directory has ended after its third stage failed,
\* with the files of the first two stages in place.
C15_Witness ==
    /\ prog = "ezmlir" /\ ~cleanup_temp /\ pc = "done" /\ exit_status = 1
    /\ Len(calls) = 3 /\ Failed(calls[3])
    /\ calls[1].outcome.wrote /\ calls[2].outcome.wrote
    /\ Exists(files, calls[1].output) /\ Exists(files, calls[2].output)

\* main.py: the files that may be tracked, in the order they are.
Trackable ==
    <<InOutputDir("original", ".mlir"), InOutputDir("optimized", ".mlir"),
      InOutputDir("lowered", ".mlir")>>

TrackedSet == {temp_files[i] : i \in 1..Len(temp_files)}

\* C16: in main.py the tracked list holds original.mlir once it is written,
\* optimized.mlir once optimize_mlir returned and lowered.mlir once
\* lower_to_llvm_dialect returned, and nothing else; without --keep-temps
\* the finally block removes exactly the tracked files that exist and
\* leaves every other file and every directory as it is, so that
\* matmul_chain.ll, matmul_chain.o, the executable and the output a failed
\* stage left behind are still there when the run has ended.
C16_CleanupExactlyTracked ==
    /\ [](prog = "main" =>
            /\ Len(temp_files) <= 3
            /\ \A i \in 1..Len(temp_files) : temp_files[i] = Trackable[i]
            /\ Len(temp_files) >= 1 <=> (pc = "optimize" \/ Len(calls) >= 1)
            /\ Len(temp_files) >= 2 <=> (Len(calls) >= 1 /\ ~Failed(calls[1]))
            /\ Len(temp_files) = 3 <=> (Len(calls) >= 2 /\ ~Failed(calls[2]))
            /\ (~args.keep_temps /\ pc = "done") =>
                  /\ \A p \in TrackedSet : ~Exists(files, p)
                  /\ \A i \in 1..Len(calls) :
                        (calls[i].outExists /\ calls[i].output \notin TrackedSet)
                            => Exists(files, calls[i].output))
    /\ [][(prog = "main" /\ pc = "finally" /\ ~args.keep_temps) =>
            /\ dirs' = dirs
            /\ DOMAIN files' = (DOMAIN files) \ TrackedSet
            /\ \A p \in DOMAIN files' : files'[p] = files[p]]_vars

\* A run of main.py without --keep-temps has ended after the lowering tool
\* failed leaving a lowered.mlir behind: the two tracked files are gone,
\* lowered.mlir is still there.
C16_Witness ==
    /\ prog = "main" /\ ~args.keep_temps /\ pc = "done"
    /\ Len(calls) = 2 /\ Failed(calls[2]) /\ calls[2].outcome.wrote
    /\ Len(temp_files) = 2
    /\ ~Exists(files, InOutputDir("original", ".mlir"))
    /\ ~Exists(files, InOutputDir("optimized", ".mlir"))
    /\ Exists(files, InOutputDir("lowered", ".mlir"))

\* C17: in main.py the link is the fifth command, spawned after
\* compile_to_object returned successfully; the executable is the sixth,
\* spawned after the link returned successfully; a link that exits
\* non-zero or cannot be spawned is the last command of the run, which
\* ends with exit status 1.
C17_LinkThenRun ==
    prog = "main" =>
        \A i \in 1..Len(calls) :
            /\ calls[i].fn = "create_executable" =>
                  /\ i = 5
                  /\ calls[4].fn = "compile_to_object" /\ ~Failed(calls[4])
                  /\ calls[i].input = calls[4].output
                  /\ Failed(calls[i]) =>
                        /\ i = Len(calls)
                        /\ pc \in {"finally", "done"}
                        /\ exit_status = 1
                        /\ ~result.ran
            /\ calls[i].fn = "run_executable" =>
                  /\ i = 6
                  /\ calls[5].fn = "create_executable" /\ ~Failed(calls[5])

\* A run whose link exited with status 2 has ended.
C17_Witness ==
    /\ prog = "main" /\ pc = "done" /\ Len(calls) = 5
    /\ calls[5].fn = "create_executable"
    /\ calls[5].outcome.kind = "exit" /\ calls[5].outcome.code = 2
    /\ exit_status = 1

\* C18: in main.py, whatever status the executable exits with, the status
\* is kept in result, nothing is spawned after it, no error is reported and
\* the run ends through the finally block with exit status 0.
C18_ChildStatusIgnored ==
    prog = "main" =>
        \A i \in 1..Len(calls) :
            (calls[i].fn = "run_executable" /\ calls[i].outcome.kind = "exit") =>
                /\ i = Len(calls)
                /\ result = [ran |-> TRUE, returncode |-> calls[i].outcome.code]
                /\ pc \in {"finally", "done"}
                /\ exit_status = 0
                /\ LastLog = "Executable generated"

\* A run whose executable exited with status 2 has ended.
C18_Witness ==
    /\ prog = "main" /\ pc = "done" /\ Len(calls) = 6
    /\ calls[6].fn = "run_executable"
    /\ calls[6].outcome.kind = "exit" /\ calls[6].outcome.code = 2
    /\ result.returncode = 2 /\ exit_status = 0

\* C14: when ezmlir.py has been run with `-` and a text on stdin, and then
\* with a file holding that text, everything else being the same, the
\* second run has read the same source, spawned the same commands with
\* the same arguments in the same order, printed the same reports, ended
\* with the same exit status and left the same files and directories, the
\* written original.mlir among them; and the second run does come to an
\* end.
C14_StdinAsFile ==
    /\ (first.ran /\ pc # "done") => ENABLED NextPair
    /\ (first.ran /\ pc = "done") =>
          /\ mlir_code = first.mlir_code
          /\ calls = first.calls
          /\ log = first.log
          /\ exit_status = first.exit_status
          /\ files = first.files
          /\ dirs = first.dirs

\* Both runs have ended, having gone through all four stages in a
\* directory that keeps original.mlir, which holds text 2.
C14_Witness ==
    /\ first.ran /\ pc = "done" /\ args.input = "in.mlir"
    /\ Len(calls) = 4 /\ Len(first.calls) = 4 /\ exit_status = 0
    /\ ~cleanup_temp
    /\ Exists(files, Named("original", ".mlir"))
    /\ files[Named("original", ".mlir")] = Content("text", 2)
    /\ first.files[Named("original", ".mlir")] = stdin

====
